---- MODULE Spec2Model ----
(***************************************************************************)
(* A model of the node-hubspot client (lib/hubspot/hubspot.js and          *)
(* lib/hubspot/helpers.js): construction of a client, the request          *)
(* executor `execute` with its response handling, the error normalisation  *)
(* `createHubspotError`, and the token refresh-and-retry flow of the       *)
(* timeline-event call.                                                    *)
(*                                                                         *)
(* JavaScript values are tagged records.  Texts (response bodies, string   *)
(* values) are sequences of tokens, so that JSON.parse and the HTML        *)
(* stripping of createHubspotError are computed on their input.            *)
(***************************************************************************)
EXTENDS Integers, Sequences, FiniteSets, TLC

(***************************************************************************)
(* JavaScript values                                                       *)
(***************************************************************************)
Undefined == [type |-> "undefined"]

Null == [type |-> "null"]

Str(t) == [type |-> "string", v |-> t]

Num(n) == [type |-> "number", n |-> n]

Obj(f) == [type |-> "object", fields |-> f]

Buf(t) == [type |-> "buffer", data |-> t]

Bool(b) == [type |-> "boolean", b |-> b]

Arr(items) == [type |-> "array", items |-> items]

\* Once(e) is the set to bind a variable in, so that e is evaluated a single
\* time however often its value is used.
Once(e) == {e}

\* Tokens of a text.
Tok(k, s) == [k |-> k, s |-> s]

LBrace == Tok("punct", "{")

RBrace == Tok("punct", "}")

Colon == Tok("punct", ":")

Comma == Tok("punct", ",")

QStr(s) == Tok("str", s)

NumTok(n) == [k |-> "num", n |-> n]

NullTok == Tok("null", "null")

Tag(s) == Tok("tag", s)

Word(s) == Tok("word", s)

Space == Tok("space", " ")

\* The string value with the characters s ("" is the empty string).
Lit(s) == IF s = "" THEN Str(<<>>) ELSE Str(<<Word(s)>>)

\* ToBoolean
Truthy(v) ==
  CASE v.type = "undefined" -> FALSE
    [] v.type = "null" -> FALSE
    [] v.type = "string" -> v.v # <<>>
    [] v.type = "number" -> v.n # 0
    [] v.type = "boolean" -> v.b
    [] OTHER -> TRUE

\* a && b
And(a, b) == IF Truthy(a) THEN b ELSE a

\* a || b
Or(a, b) == IF Truthy(a) THEN a ELSE b

\* Reading a property of null or undefined is a TypeError.
CanRead(v) == v.type \notin {"undefined", "null"}

\* v[key], for a value it can be read of.
Get(v, key) ==
  IF v.type = "object" /\ key \in DOMAIN v.fields THEN v.fields[key] ELSE Undefined

\* String(v), as a text.
ToText(v) ==
  CASE v.type = "string" -> v.v
    [] v.type = "buffer" -> v.data
    [] v.type = "number" -> <<NumTok(v.n)>>
    [] v.type = "null" -> <<Word("null")>>
    [] v.type = "undefined" -> <<Word("undefined")>>
    [] OTHER -> <<Word("[object Object]")>>

(***************************************************************************)
(* JSON.parse, on texts holding a scalar or a flat object of scalars       *)
(***************************************************************************)
IsScalarTok(t) == t.k \in {"str", "num", "null"}

ParseScalar(t) ==
  CASE t.k = "str" -> Lit(t.s)
    [] t.k = "num" -> Num(t.n)
    [] OTHER -> Null

\* The members between the braces: key : scalar , key : scalar ...
WellFormedMembers(m) ==
  \/ Len(m) = 0
  \/ /\ Len(m) % 4 = 3
     /\ \A i \in 1..Len(m) :
          CASE i % 4 = 1 -> m[i].k = "str"
            [] i % 4 = 2 -> m[i] = Colon
            [] i % 4 = 3 -> IsScalarTok(m[i])
            [] OTHER -> m[i] = Comma

\* A key given twice keeps its last value.
MemberFields(m) ==
  LET keyAt == {i \in 1..Len(m) : i % 4 = 1}
      keys == {m[i].s : i \in keyAt}
      last(key) == CHOOSE i \in keyAt :
                     /\ m[i].s = key
                     /\ \A j \in keyAt : m[j].s = key => j <= i
  IN  [key \in keys |-> ParseScalar(m[last(key) + 2])]

JSONparse(text) ==
  IF Len(text) = 1 /\ IsScalarTok(text[1])
  THEN [ok |-> TRUE, value |-> ParseScalar(text[1])]
  ELSE IF Len(text) >= 2 /\ text[1] = LBrace /\ text[Len(text)] = RBrace
       THEN CHOOSE r \in {IF WellFormedMembers(m)
                          THEN [ok |-> TRUE, value |-> Obj(MemberFields(m))]
                          ELSE [ok |-> FALSE, value |-> Undefined] :
                            m \in {SubSeq(text, 2, Len(text) - 1)}} : TRUE
       ELSE [ok |-> FALSE, value |-> Undefined]

(***************************************************************************)
(* helpers.js                                                              *)
(***************************************************************************)
isAnError(statusCode) == (statusCode \div 100) # 2

\* new Error(message): the properties createHubspotError and execute set are
\* undefined until they are assigned.
NewError(message) ==
  [type |-> "error",
   message |-> IF message = Undefined THEN Str(<<>>) ELSE Str(ToText(message)),
   status |-> Undefined,
   code |-> Undefined,
   statusCode |-> Undefined,
   requestId |-> Undefined,
   prevError |-> Undefined]

IsBodyOpen(t) == t \in {Tag("<body>"), Tag("<BODY>")}

IsBodyClose(t) == t \in {Tag("</body>"), Tag("</BODY>")}

\* errorBody.match(/<body>(.*?)<\/body>/i): the leftmost <body> that a </body>
\* follows, up to the first </body> after it; <<>> when there is no match.
MatchBody(text) ==
  LET opens == {i \in 1..Len(text) :
                  /\ IsBodyOpen(text[i])
                  /\ \E j \in (i + 1)..Len(text) : IsBodyClose(text[j])}
  IN  IF opens = {}
      THEN <<>>
      ELSE LET i == CHOOSE a \in opens : \A b \in opens : a <= b
               j == CHOOSE a \in (i + 1)..Len(text) :
                      /\ IsBodyClose(text[a])
                      /\ \A b \in (i + 1)..Len(text) : IsBodyClose(text[b]) => a <= b
           IN  SubSeq(text, i, j)

\* .replace(/(<([^>]+)>)/ig, ' ')
ReplaceTags(text) ==
  [i \in 1..Len(text) |-> IF text[i].k = "tag" THEN Space ELSE text[i]]

\* .replace(/\s\s+/g, ' '): a run of two or more spaces becomes one space.
RECURSIVE CollapseSpaces(_)
CollapseSpaces(text) ==
  IF Len(text) <= 1
  THEN text
  ELSE IF text[1] = Space /\ text[2] = Space
       THEN CollapseSpaces(Tail(text))
       ELSE <<text[1]>> \o CollapseSpaces(Tail(text))

StripHtml(text) ==
  CHOOSE t \in {IF htmlBody = <<>> THEN text ELSE CollapseSpaces(ReplaceTags(htmlBody)) :
                  htmlBody \in {MatchBody(text)}} : TRUE

\* The body as createHubspotError reads it, p being JSON.parse of its text:
\* [threw, json, body].  A string that does not parse is stripped of its
\* tags; a buffer is parsed outside any try block, so a buffer that does not
\* hold JSON throws a SyntaxError.
ReadErrorBody(errorBody, p) ==
  CASE errorBody.type = "string" ->
         IF p.ok
         THEN [threw |-> FALSE, json |-> p.value, body |-> errorBody]
         ELSE [threw |-> FALSE, json |-> Undefined, body |-> Str(StripHtml(errorBody.v))]
    [] errorBody.type = "buffer" ->
         IF p.ok
         THEN [threw |-> FALSE, json |-> p.value, body |-> errorBody]
         ELSE [threw |-> TRUE, json |-> Undefined, body |-> errorBody]
    [] errorBody.type \in {"object", "null"} ->
         [threw |-> FALSE, json |-> errorBody, body |-> errorBody]
    [] OTHER ->
         [threw |-> FALSE, json |-> Undefined, body |-> errorBody]

\* createHubspotError from line 68 on without lines 85 to 88: the error keeps
\* the message and the status it was made with.
BuildErrorNoDescription(r, code) ==
  LET errorBodyJSON == r.json
      requestId == And(errorBodyJSON, Get(errorBodyJSON, "requestId"))
      message == Or(And(errorBodyJSON, Get(errorBodyJSON, "message")), r.body)
      status == And(errorBodyJSON, Get(errorBodyJSON, "status"))
      e0 == [NewError(message) EXCEPT !.status = status]
      e1 == IF Truthy(code) THEN [e0 EXCEPT !.code = code, !.statusCode = code] ELSE e0
      e2 == IF Truthy(requestId) THEN [e1 EXCEPT !.requestId = requestId] ELSE e1
  IN  IF r.threw
      THEN [threw |-> TRUE, error |-> Undefined]
      ELSE [threw |-> FALSE, error |-> e2]

\* createHubspotError from line 68 on, r being what the body was read as.
BuildError(r, code) ==
  LET errorBodyJSON == r.json
      requestId == And(errorBodyJSON, Get(errorBodyJSON, "requestId"))
      message == Or(And(errorBodyJSON, Get(errorBodyJSON, "message")), r.body)
      status == And(errorBodyJSON, Get(errorBodyJSON, "status"))
      errorType == And(errorBodyJSON, Get(errorBodyJSON, "error"))
      errorDescription == And(errorBodyJSON, Get(errorBodyJSON, "error_description"))
      e0 == [NewError(message) EXCEPT !.status = status]
      e1 == IF Truthy(code) THEN [e0 EXCEPT !.code = code, !.statusCode = code] ELSE e0
      e2 == IF Truthy(requestId) THEN [e1 EXCEPT !.requestId = requestId] ELSE e1
      e3 == IF Truthy(errorDescription)
            THEN [e2 EXCEPT !.message = errorDescription, !.status = errorType]
            ELSE e2
  IN  IF r.threw
      THEN [threw |-> TRUE, error |-> Undefined]
      ELSE [threw |-> FALSE, error |-> e3]

\* createHubspotError(errorBody, code): [threw, error].
createHubspotError(errorBody, code) ==
  CHOOSE e \in {BuildError(r, code) :
                  r \in {ReadErrorBody(errorBody, p) :
                           p \in Once(IF errorBody.type \in {"string", "buffer"}
                                      THEN JSONparse(ToText(errorBody))
                                      ELSE [ok |-> FALSE, value |-> Undefined])}} : TRUE

(***************************************************************************)
(* Sample texts                                                            *)
(***************************************************************************)
EmptyText == <<>>

EmptyObjectText == <<LBrace, RBrace>>

ContactText == <<LBrace, QStr("vid"), Colon, NumTok(7), RBrace>>

NullText == <<NullTok>>

NumberText == <<NumTok(5)>>

InBandErrorText ==
  <<LBrace, QStr("status"), Colon, QStr("error"), Comma,
    QStr("message"), Colon, QStr("contact does not exist"), Comma,
    QStr("requestId"), Colon, QStr("r1"), RBrace>>

OAuthErrorText ==
  <<LBrace, QStr("error"), Colon, QStr("invalid_grant"), Comma,
    QStr("error_description"), Colon, QStr("refresh token is invalid"), RBrace>>

HtmlText ==
  <<Tag("<html>"), Tag("<body>"), Word("Internal Server Error"),
    Tag("</body>"), Tag("</html>")>>

HtmlHeadingText ==
  <<Tag("<BODY>"), Tag("<h1>"), Word("Bad Gateway"), Tag("</h1>"), Tag("</BODY>")>>

PlainText == <<Word("upstream connect error")>>

TokenText ==
  <<LBrace, QStr("access_token"), Colon, QStr("T2"), Comma,
    QStr("refresh_token"), Colon, QStr("R2"), RBrace>>

TruncatedText == <<LBrace, QStr("status"), Colon>>

Bodies ==
  {EmptyText, EmptyObjectText, ContactText, NullText, NumberText, InBandErrorText,
   OAuthErrorText, HtmlText, HtmlHeadingText, PlainText, TruncatedText, TokenText}

(***************************************************************************)
(* hubspot.js: processResponseBody                                         *)
(***************************************************************************)
EmptyObject == Obj([key \in {} |-> Undefined])

ParseError == NewError(Lit("Error parsing JSON answer from hubspot API."))

\* What one exchange ends with: the arguments handed to the callback, or the
\* exception thrown instead of calling it.
Called(err, result) == [threw |-> FALSE, exc |-> "none", err |-> err, result |-> result]

Thrown(exc) == [threw |-> TRUE, exc |-> exc, err |-> Undefined, result |-> Undefined]

\* The error callback(helpers.createHubspotError(body, statusCode)) hands over.
CallbackHubspotError(body, statusCode) ==
  CHOOSE out \in {IF r.threw THEN Thrown("SyntaxError") ELSE Called(r.error, Undefined) :
                    r \in Once(createHubspotError(body, Num(statusCode)))} : TRUE

\* processResponseBody from line 168 on without the exemption of status 204.
ProcessParsedNo204(statusCode, p) ==
  IF ~p.ok
  THEN Called(ParseError, Undefined)
  ELSE IF ~CanRead(p.value)
       THEN Thrown("TypeError")
       ELSE IF Get(p.value, "status") = Lit("error") \/ isAnError(statusCode)
            THEN CallbackHubspotError(p.value, statusCode)
            ELSE Called(Null, p.value)

\* processResponseBody from line 168 on without the test of the body's status
\* at line 178.
ProcessParsedNoInBand(statusCode, p) ==
  LET parsedResponse == IF p.ok THEN p.value ELSE EmptyObject
  IN  IF ~p.ok /\ statusCode # 204
      THEN Called(ParseError, Undefined)
      ELSE IF ~CanRead(parsedResponse)
           THEN Thrown("TypeError")
           ELSE IF isAnError(statusCode)
                THEN CallbackHubspotError(parsedResponse, statusCode)
                ELSE Called(Null, parsedResponse)

\* processResponseBody from line 168 on, p being JSON.parse(body).
ProcessParsed(statusCode, p) ==
  LET parsedResponse == IF p.ok THEN p.value ELSE EmptyObject
  IN  IF ~p.ok /\ statusCode # 204
      THEN Called(ParseError, Undefined)
      ELSE IF ~CanRead(parsedResponse)
           THEN Thrown("TypeError")
           ELSE IF Get(parsedResponse, "status") = Lit("error") \/ isAnError(statusCode)
                THEN CallbackHubspotError(parsedResponse, statusCode)
                ELSE Called(Null, parsedResponse)

processResponseBody(statusCode, body) ==
  IF isAnError(statusCode)
  THEN CallbackHubspotError(body, statusCode)
  ELSE CHOOSE out \in {ProcessParsed(statusCode, p) :
                         p \in Once(JSONparse(ToText(body)))} : TRUE

(***************************************************************************)
(* hubspot.js: execute, up to the call of request()                        *)
(***************************************************************************)
Verbs == {"get", "post", "postJson", "put", "patch", "delete"}

\* The first argument get, post, postJson, put, patch and delete hand to execute.
VerbParams(op) ==
  CASE op = "get" -> [verb |-> "GET", json |-> FALSE]
    [] op = "post" -> [verb |-> "POST", json |-> FALSE]
    [] op = "postJson" -> [verb |-> "POST", json |-> TRUE]
    [] op = "put" -> [verb |-> "PUT", json |-> FALSE]
    [] op = "patch" -> [verb |-> "PATCH", json |-> FALSE]
    [] OTHER -> [verb |-> "DELETE", json |-> FALSE]

Range(seq) == {seq[i] : i \in 1..Len(seq)}

\* finalParams: the whitelisted parameters that are not undefined, and hapikey.
FinalParams(this, availableParams, givenParams) ==
  LET kept == {name \in Range(availableParams) :
                 name \in DOMAIN givenParams /\ givenParams[name] # Undefined}
      names == IF Truthy(this.api_key) THEN kept \cup {"hapikey"} ELSE kept
  IN  [name \in names |->
         IF name = "hapikey" /\ Truthy(this.api_key)
         THEN this.api_key
         ELSE givenParams[name]]

Headers(this) ==
  [ContentType |-> this.contentType,
   UserAgent |-> this.userAgent,
   AcceptEncoding |-> Lit("gzip, deflate"),
   Authorization |-> IF Truthy(this.access_token)
                     THEN Str(<<Word("Bearer ")>> \o ToText(this.access_token))
                     ELSE Undefined]

NoParams == [present |-> FALSE, params |-> [key \in {} |-> Undefined]]

Params(f) == [present |-> TRUE, params |-> f]

\* execute: [threw, requestOptions].  requestOptions has no qs property, and
\* form or json only for POST; for POST, line 122 reads authParams, which is
\* declared nowhere, and throws a ReferenceError before request() is called.
Execute(this, verbParams, path, availableParams, givenParams) ==
  LET finalParams == FinalParams(this, availableParams, givenParams)
      requestOptions ==
        [method |-> verbParams.verb,
         headers |-> Headers(this),
         uri |-> Str(ToText(this.httpUri) \o <<Word("/"), Word(path)>>),
         qs |-> NoParams,
         form |-> IF verbParams.verb = "POST" /\ ~verbParams.json
                  THEN Params(finalParams) ELSE NoParams,
         json |-> IF verbParams.verb = "POST" /\ verbParams.json
                  THEN Params(finalParams) ELSE NoParams]
  IN  [threw |-> verbParams.verb = "POST", requestOptions |-> requestOptions]

(***************************************************************************)
(* hubspot.js: the constructor                                             *)
(***************************************************************************)
\* The client before hubspotAPI has assigned any property.
NoClient ==
  [api_key |-> Undefined, access_token |-> Undefined, refresh_token |-> Undefined,
   client_id |-> Undefined, client_secret |-> Undefined,
   httpUri |-> Undefined, DEBUG |-> Undefined,
   contentType |-> Undefined, userAgent |-> Undefined]

\* The check of line 20 with the access token forgotten.
RequiresKeyOnly(options) == ~Truthy(options.api_key)

RequiresKeyOrToken(options) ==
  ~Truthy(options.api_key) /\ ~Truthy(options.access_token)

\* hubspotAPI(options): [threw, message, this].
hubspotAPI(options) ==
  IF options = Undefined
  THEN [threw |-> TRUE,
        message |-> "You have to provide a authentication details for this to work.",
        this |-> NoClient]
  ELSE IF RequiresKeyOrToken(options)
       THEN [threw |-> TRUE,
             message |-> "API requires api_key or access_token",
             this |-> NoClient]
       ELSE [threw |-> FALSE,
             message |-> "",
             this |-> [NoClient EXCEPT
                         !.api_key = IF Truthy(options.api_key)
                                     THEN options.api_key ELSE Undefined,
                         !.access_token = IF Truthy(options.api_key)
                                          THEN Undefined ELSE options.access_token,
                         !.httpUri = Lit("https://api.hubapi.com"),
                         !.DEBUG = Or(options.DEBUG, Bool(FALSE)),
                         !.contentType = Or(options.contentType, Lit("application/json")),
                         !.userAgent = Or(options.userAgent, Lit("node-hubspot"))]]

(***************************************************************************)
(* Inputs                                                                  *)
(***************************************************************************)
MaxCalls == 2

CallIds == 1..MaxCalls

\* The options a caller passes: no options at all, or an object.  The content
\* type and the user agent are left out or given together.
OptionsSet ==
  {Undefined} \cup
  {[api_key |-> k, access_token |-> t, DEBUG |-> d,
    contentType |-> IF custom THEN Lit("text/plain") ELSE Undefined,
    userAgent |-> IF custom THEN Lit("my-agent") ELSE Undefined] :
     k \in {Undefined, Lit(""), Lit("K1")},
     t \in {Undefined, Lit(""), Lit("T1")},
     d \in {Undefined, Bool(TRUE)},
     custom \in BOOLEAN}

StatusCodes == {200, 204, 302, 401, 500}

Response(error, gzip, corrupt, statusCode, body) ==
  [error |-> error, gzip |-> gzip, corrupt |-> corrupt,
   statusCode |-> statusCode, body |-> body]

\* request() failed: the callback gets the error and no response.
TransportError == Response(TRUE, FALSE, FALSE, 0, EmptyText)

\* What the transport can answer.  body is the text the server sent (before
\* it gzipped it, when gzip is set); corrupt says that gunzip fails on what
\* arrived.
Responses ==
  {TransportError}
  \cup {Response(FALSE, TRUE, TRUE, s, EmptyText) : s \in StatusCodes}
  \cup {Response(FALSE, g, FALSE, s, b) : g \in BOOLEAN, s \in StatusCodes, b \in Bodies}

SamplePath == "contacts/v1/lists/all/contacts/all"

Whitelists == {<<>>, <<"count", "property", "vidOffset">>}

GivenParams ==
  {[key \in {} |-> Undefined],
   [count |-> Num(5), version |-> Lit("v2")],
   [count |-> Undefined, property |-> Lit("email")],
   [property |-> Arr(<<Lit("email"), Lit("firstname")>>)]}

\* A parameter bag without properties, and the value of `params` when the
\* caller passes none.
EmptyBag == [key \in {} |-> Undefined]

NoBag == Undefined

\* The bag with the property name set to value.
WithParam(bag, name, value) ==
  [key \in DOMAIN bag \cup {name} |-> IF key = name THEN value ELSE bag[key]]

\* bag[name], undefined when the bag has no such property.
Param(bag, name) == IF name \in DOMAIN bag THEN bag[name] ELSE Undefined

\* A value as the operator + puts it into a path.
PathText(v) ==
  CASE v.type = "string" /\ Len(v.v) = 1 -> v.v[1].s
    [] v.type = "string" /\ Len(v.v) = 0 -> ""
    [] v.type = "number" -> ToString(v.n)
    [] OTHER -> v.type

Methods == {"refresh", "get_contact_by_email", "contacts_lists", "contacts_lists_add"}

\* The parameters the callers of the catalog methods pass.
MethodParams(method) ==
  CASE method = "refresh" ->
         {NoBag,
          [refresh_token |-> Lit("R1"), client_id |-> Lit("C1"),
           client_secret |-> Lit("S1")],
          [refresh_token |-> Lit("R1"), client_id |-> Lit("C1"),
           client_secret |-> Lit("S1"), grant_type |-> Lit("authorization_code")]}
    [] method = "get_contact_by_email" ->
         {[email |-> Lit("joe@acme.com")],
          [email |-> Lit("joe@acme.com"), count |-> Num(5),
           property |-> Arr(<<Lit("email"), Lit("firstname")>>)]}
    [] method = "contacts_lists" ->
         {EmptyBag,
          [version |-> Lit("v2"), count |-> Num(5), offset |-> Undefined]}
    [] OTHER ->
         {[list_id |-> Num(1), contact_id |-> Num(2)],
          [version |-> Lit("v2"), list_id |-> Num(1), contact_id |-> Num(2),
           count |-> Num(5)]}

\* What a catalog method hands to the verb it calls, and the caller's object
\* when the method has returned: [op, path, availableParams, givenParams,
\* paramsAfter].  refresh writes grant_type into the caller's object, or into
\* an object of its own when the caller passed none; contacts_lists_add hands
\* on a JSON string, which has none of the whitelisted names as a property.
Catalog(method, params) ==
  LET version == IF params # NoBag /\ Truthy(Param(params, "version"))
                 THEN PathText(Param(params, "version")) ELSE "v1"
  IN  CASE method = "refresh" ->
             [op |-> "post", path |-> "auth/v1/refresh",
              availableParams |-> <<"refresh_token", "client_id", "grant_type">>,
              givenParams |-> WithParam(IF params = NoBag THEN EmptyBag ELSE params,
                                        "grant_type", Lit("refresh_token")),
              paramsAfter |-> IF params = NoBag
                              THEN NoBag
                              ELSE WithParam(params, "grant_type", Lit("refresh_token"))]
        [] method = "get_contact_by_email" ->
             [op |-> "get",
              path |-> "contacts/v1/contact/email/" \o PathText(Param(params, "email"))
                         \o "/profile",
              availableParams |-> <<"count", "property", "vidOffset">>,
              givenParams |-> params,
              paramsAfter |-> params]
        [] method = "contacts_lists" ->
             [op |-> "get", path |-> "contacts/" \o version \o "/lists",
              availableParams |-> <<"count", "offset">>,
              givenParams |-> params,
              paramsAfter |-> params]
        [] OTHER ->
             [op |-> "post",
              path |-> "contacts/" \o version \o "/lists/"
                         \o PathText(Param(params, "list_id")) \o "/add",
              availableParams |-> <<"count", "property", "vidOffset">>,
              givenParams |-> EmptyBag,
              paramsAfter |-> params]

(***************************************************************************)
(* State                                                                   *)
(***************************************************************************)
VARIABLES ctor, self, calls, norm

vars == <<ctor, self, calls, norm>>

NoResponse == [none |-> TRUE]

\* A direct use of helpers.createHubspotError: its arguments and what came of it.
NotApplied ==
  [applied |-> FALSE, errorBody |-> Undefined, code |-> Undefined,
   threw |-> FALSE, error |-> Undefined]

IdleCall ==
  [pc |-> "idle", op |-> "none", kont |-> "none",
   availableParams |-> <<>>, givenParams |-> [key \in {} |-> Undefined],
   params |-> [key \in {} |-> Undefined], paramsAfter |-> [key \in {} |-> Undefined],
   sent |-> <<>>, got |-> <<>>, res |-> NoResponse, refreshes |-> 0, grant |-> FALSE,
   cbCount |-> 0, cbErr |-> Undefined, cbResult |-> Undefined, exc |-> "none",
   overlap |-> FALSE]

Init ==
  /\ ctor = [state |-> "new", options |-> Undefined, message |-> ""]
  /\ self = NoClient
  /\ calls = [i \in CallIds |-> IdleCall]
  /\ norm = NotApplied

\* var api = hubSpotAPI(options)
Construct ==
  /\ ctor.state = "new"
  /\ \E options \in OptionsSet :
       \E r \in Once(hubspotAPI(options)) :
         /\ ctor' = [state |-> IF r.threw THEN "thrown" ELSE "built",
                     options |-> options,
                     message |-> r.message]
         /\ self' = r.this
  /\ UNCHANGED <<calls, norm>>

(***************************************************************************)
(* Calls                                                                   *)
(***************************************************************************)
ConnectionError(cause) ==
  [NewError(Lit("Unable to connect to the hubspot API endpoint. Check prevError."))
     EXCEPT !.prevError = cause]

DecompressionError(cause) ==
  [NewError(Lit("Unable decompress Hubspot API response's body. Check prevError."))
     EXCEPT !.prevError = cause]

\* callback(err, result), the callback being the caller's.
InvokeCallback(c, err, result) ==
  [c EXCEPT !.pc = "done", !.cbCount = @ + 1, !.cbErr = err, !.cbResult = result]

\* An exception leaves the handler it is thrown in.
Raise(c, exc) == [c EXCEPT !.pc = "thrown", !.exc = exc]

\* this.execute(...) from the state c, with the continuation kont: the request
\* is in flight, or execute threw.
Issue(c, this, op, path, availableParams, givenParams, kont) ==
  LET ex == Execute(this, VerbParams(op), path, availableParams, givenParams)
  IN  IF ex.threw
      THEN Raise(c, "ReferenceError")
      ELSE [c EXCEPT !.pc = "inflight", !.kont = kont,
                     !.sent = Append(@, ex.requestOptions)]

TimelinePath == "integrations/v1/application_id/timeline/event"

TimelineAvailableParams == <<"id", "eventTypeId", "email", "extraData">>

TimelineParams ==
  [id |-> Num(123), eventTypeId |-> Num(123456), email |-> Lit("joe@acme.com"),
   extraData |-> Lit("{\"name\":\"JohnDoe\",\"weather\":\"Cloudy\"}")]

RefreshPath == "oauth/v1/token"

RefreshAvailableParams == <<"grant_type", "client_id", "client_secret", "refresh_token">>

\* refreshAccessToken(refresh_token, callback): a post to the token endpoint.
refreshAccessToken(c, this, refresh_token, kont) ==
  Issue([c EXCEPT !.refreshes = @ + 1], this, "post", RefreshPath,
        RefreshAvailableParams,
        [grant_type |-> Lit("refresh_token"), client_id |-> this.client_id,
         client_secret |-> this.client_secret, refresh_token |-> refresh_token],
        kont)

IsUnauthorized(err) ==
  Truthy(err) /\ err.type = "error" /\ err.statusCode = Num(401)

\* The tokens of a refresh answer replace the client's.
WithTokens(this, tokens) ==
  [this EXCEPT !.access_token = Get(tokens, "access_token"),
               !.refresh_token = Or(Get(tokens, "refresh_token"), @)]

\* What follows an exchange that ended with out: [call, self].
\*   callback      the caller's callback is called;
\*   afterPut      the callback of the timeline call's first put: a 401 starts
\*                 the refresh, anything else goes to the caller;
\*   afterRefresh  the callback of the refresh: an error goes to the caller, a
\*                 success stores the tokens and puts once more, the caller's
\*                 callback being the callback of that put.
Continue(c, this, out) ==
  CASE out.threw ->
         [call |-> Raise(c, out.exc), self |-> this]
    [] ~out.threw /\ c.kont = "afterPut" /\ IsUnauthorized(out.err) ->
         [call |-> refreshAccessToken(c, this, this.refresh_token, "afterRefresh"),
          self |-> this]
    [] ~out.threw /\ c.kont = "afterRefresh" /\ ~Truthy(out.err) ->
         [call |-> Issue(c, WithTokens(this, out.result), "put", TimelinePath,
                         TimelineAvailableParams, c.givenParams, "callback"),
          self |-> WithTokens(this, out.result)]
    [] OTHER ->
         [call |-> InvokeCallback(c, out.err, out.result), self |-> this]

NoCallInFlight == \A i \in CallIds : calls[i].pc = "idle"

\* api.get / post / postJson / put / patch / delete (path, availableParams,
\* givenParams, callback)
Call(i) ==
  /\ ctor.state = "built"
  /\ NoCallInFlight
  /\ \E op \in Verbs, availableParams \in Whitelists, givenParams \in GivenParams :
       \E c \in Once(Issue([IdleCall EXCEPT !.op = op,
                                            !.availableParams = availableParams,
                                            !.givenParams = givenParams,
                                            !.params = givenParams,
                                            !.paramsAfter = givenParams],
                           self, op, SamplePath, availableParams, givenParams,
                           "callback")) :
         calls' = [calls EXCEPT ![i] = c]
  /\ UNCHANGED <<ctor, self, norm>>

\* api.createOrUpdateTimelineEvent(eventTypeId, email, id, extraData, callback)
CallTimeline(i) ==
  /\ ctor.state = "built"
  /\ NoCallInFlight
  /\ \E grant \in BOOLEAN :
     \E c \in Once(Issue([IdleCall EXCEPT !.op = "createOrUpdateTimelineEvent",
                                          !.grant = grant,
                                          !.availableParams = TimelineAvailableParams,
                                          !.givenParams = TimelineParams,
                                          !.params = TimelineParams,
                                          !.paramsAfter = TimelineParams],
                         self, "put", TimelinePath, TimelineAvailableParams,
                         TimelineParams, "afterPut")) :
       calls' = [calls EXCEPT ![i] = c]
  /\ UNCHANGED <<ctor, self, norm>>

\* api.refresh / get_contact_by_email / contacts_lists / contacts_lists_add
\* (params, callback)
CallCatalog(i) ==
  /\ ctor.state = "built"
  /\ NoCallInFlight
  /\ \E method \in Methods :
       \E params \in MethodParams(method) :
         \E m \in Once(Catalog(method, params)) :
           \E c \in Once(Issue([IdleCall EXCEPT !.op = method,
                                                !.availableParams = m.availableParams,
                                                !.givenParams = m.givenParams,
                                                !.params = params,
                                                !.paramsAfter = m.paramsAfter],
                               self, m.op, m.path, m.availableParams, m.givenParams,
                               "callback")) :
             calls' = [calls EXCEPT ![i] = c]
  /\ UNCHANGED <<ctor, self, norm>>

\* The callback handed to request(), up to gunzip or processResponseBody.  With
\* DEBUG set it reads res.statusCode first, and res is undefined when the
\* request failed.
RequestCallback(this, res) ==
  IF Truthy(this.DEBUG) /\ res.error
  THEN Thrown("TypeError")
  ELSE IF res.error
       THEN Called(ConnectionError(Lit("ECONNREFUSED")), Undefined)
       ELSE processResponseBody(res.statusCode, Buf(res.body))

\* What the server answers to the request in flight.  The token endpoint
\* grants a new pair of tokens or not, as c.grant says.
Granted(res) == ~res.error /\ ~res.corrupt /\ res.statusCode = 200 /\ res.body = TokenText

Answers(c) ==
  IF c.kont = "afterRefresh"
  THEN {res \in Responses : Granted(res) <=> c.grant}
  ELSE Responses

\* The callback handed to request() is called with the answer res.
Deliver(i, res) ==
  \E c \in Once([calls[i] EXCEPT !.res = res, !.got = Append(@, res)]) :
    IF ~res.error /\ res.gzip
    THEN /\ calls' = [calls EXCEPT ![i] = [c EXCEPT !.pc = "gunzip"]]
         /\ self' = self
    ELSE \E out \in Once(RequestCallback(self, res)) :
           \E k \in Once(Continue(c, self, out)) :
             /\ calls' = [calls EXCEPT ![i] = k.call]
             /\ self' = k.self

\* request() calls back.
Respond(i) ==
  /\ calls[i].pc = "inflight"
  /\ \E res \in Answers(calls[i]) : Deliver(i, res)
  /\ UNCHANGED <<ctor, norm>>

\* A callback of zlib.gunzip() that reads the response out of a variable the
\* calls share: it sees the response of whichever call awaits decompression.
GunzipCallbackShared(res) ==
  LET shared == calls[CHOOSE j \in CallIds : calls[j].pc = "gunzip"].res
  IN  IF shared.corrupt
      THEN Called(DecompressionError(Lit("incorrect header check")), Undefined)
      ELSE processResponseBody(shared.statusCode, Str(shared.body))

\* The callback handed to zlib.gunzip().
GunzipCallback(res) ==
  IF res.corrupt
  THEN Called(DecompressionError(Lit("incorrect header check")), Undefined)
  ELSE processResponseBody(res.statusCode, Str(res.body))

\* zlib.gunzip() calls back.
Gunzip(i) ==
  /\ calls[i].pc = "gunzip"
  /\ \E out \in Once(GunzipCallback(calls[i].res)) :
       \E k \in Once(Continue(calls[i], self, out)) :
         /\ calls' = [calls EXCEPT ![i] = k.call]
         /\ self' = k.self
  /\ UNCHANGED <<ctor, norm>>

\* The caller is done with a call that has ended.
Forget(i) ==
  /\ calls[i].pc \in {"done", "thrown"}
  /\ calls' = [calls EXCEPT ![i] = IdleCall]
  /\ UNCHANGED <<ctor, self, norm>>

(***************************************************************************)
(* helpers.createHubspotError used on its own                              *)
(***************************************************************************)
\* An error body whose fields are empty strings.
BlankErrorText ==
  <<LBrace, QStr("status"), Colon, QStr(""), Comma,
    QStr("message"), Colon, QStr(""), Comma,
    QStr("requestId"), Colon, QStr(""), RBrace>>

\* An error body with the fields of both shapes.
FullErrorText ==
  <<LBrace, QStr("status"), Colon, QStr("error"), Comma,
    QStr("message"), Colon, QStr("token expired"), Comma,
    QStr("requestId"), Colon, QStr("r2"), Comma,
    QStr("error"), Colon, QStr("invalid_grant"), Comma,
    QStr("error_description"), Colon, QStr("refresh token is invalid"), RBrace>>

ErrorTexts == Bodies \cup {BlankErrorText, FullErrorText}

ErrorBodies ==
  {Str(b) : b \in ErrorTexts} \cup {Buf(b) : b \in ErrorTexts}
  \cup {JSONparse(b).value : b \in {t \in ErrorTexts : JSONparse(t).ok}}
  \cup {Null, Undefined}

Codes == {Num(s) : s \in StatusCodes} \cup {Undefined}

Normalize ==
  /\ \E errorBody \in ErrorBodies, code \in Codes :
       \E r \in Once(createHubspotError(errorBody, code)) :
         norm' = [applied |-> TRUE, errorBody |-> errorBody, code |-> code,
                  threw |-> r.threw, error |-> r.error]
  /\ UNCHANGED <<ctor, self, calls>>

NormSpec == Init /\ [][Normalize]_vars

(***************************************************************************)
(* Several calls in flight on one client                                   *)
(***************************************************************************)
ConcOptions ==
  {[api_key |-> Undefined, access_token |-> Lit("T1"), DEBUG |-> Undefined,
    contentType |-> Undefined, userAgent |-> Undefined],
   [api_key |-> Lit("K1"), access_token |-> Undefined, DEBUG |-> Bool(TRUE),
    contentType |-> Lit("text/plain"), userAgent |-> Lit("my-agent")]}

ConcVerbs == {"get", "post"}

ConcResponses ==
  {TransportError,
   Response(FALSE, TRUE, TRUE, 200, EmptyText),
   Response(FALSE, FALSE, FALSE, 200, InBandErrorText),
   Response(FALSE, TRUE, FALSE, 200, ContactText),
   Response(FALSE, FALSE, FALSE, 401, EmptyObjectText),
   Response(FALSE, TRUE, FALSE, 500, HtmlText),
   Response(FALSE, FALSE, FALSE, 500, HtmlText)}

InFlight(c) == c.pc \in {"inflight", "gunzip"}

\* var api = hubSpotAPI(options)
ConcConstruct ==
  /\ ctor.state = "new"
  /\ \E options \in ConcOptions :
       \E r \in Once(hubspotAPI(options)) :
         /\ ctor' = [state |-> IF r.threw THEN "thrown" ELSE "built",
                     options |-> options,
                     message |-> r.message]
         /\ self' = r.this
  /\ UNCHANGED <<calls, norm>>

\* api.get / post (path, availableParams, givenParams, callback), whatever the
\* other calls are at.
ConcCall(i) ==
  /\ ctor.state = "built"
  /\ calls[i].pc = "idle"
  /\ \E op \in ConcVerbs :
       \E givenParams \in Once([count |-> Num(5), version |-> Lit("v2")]) :
         \E c \in Once(Issue([IdleCall EXCEPT
                                !.op = op,
                                !.availableParams = <<"count", "property", "vidOffset">>,
                                !.givenParams = givenParams,
                                !.params = givenParams,
                                !.paramsAfter = givenParams,
                                !.overlap = \E j \in CallIds \ {i} : InFlight(calls[j])],
                             self, op, SamplePath, <<"count", "property", "vidOffset">>,
                             givenParams, "callback")) :
           calls' = [calls EXCEPT ![i] = c]
  /\ UNCHANGED <<ctor, self, norm>>

\* api.createOrUpdateTimelineEvent(eventTypeId, email, id, extraData, callback),
\* whatever the other calls are at.
ConcCallTimeline(i) ==
  /\ ctor.state = "built"
  /\ calls[i].pc = "idle"
  /\ \E c \in Once(Issue([IdleCall EXCEPT
                            !.op = "createOrUpdateTimelineEvent",
                            !.grant = TRUE,
                            !.availableParams = TimelineAvailableParams,
                            !.givenParams = TimelineParams,
                            !.params = TimelineParams,
                            !.paramsAfter = TimelineParams,
                            !.overlap = \E j \in CallIds \ {i} : InFlight(calls[j])],
                         self, "put", TimelinePath, TimelineAvailableParams,
                         TimelineParams, "afterPut")) :
       calls' = [calls EXCEPT ![i] = c]
  /\ UNCHANGED <<ctor, self, norm>>

\* request() calls back.
ConcRespond(i) ==
  /\ calls[i].pc = "inflight"
  /\ \E res \in ConcResponses : Deliver(i, res)
  /\ UNCHANGED <<ctor, norm>>

ConcNext ==
  \/ ConcConstruct
  \/ \E i \in CallIds : ConcCall(i)
  \/ \E i \in CallIds : ConcCallTimeline(i)
  \/ \E i \in CallIds : ConcRespond(i)
  \/ \E i \in CallIds : Gunzip(i)
  \/ \E i \in CallIds : Forget(i)

ConcSpec == Init /\ [][ConcNext]_vars

Next ==
  \/ Construct
  \/ \E i \in CallIds : Call(i)
  \/ \E i \in CallIds : CallTimeline(i)
  \/ \E i \in CallIds : CallCatalog(i)
  \/ \E i \in CallIds : Respond(i)
  \/ \E i \in CallIds : Gunzip(i)
  \/ \E i \in CallIds : Forget(i)

Spec == Init /\ [][Next]_vars

(***************************************************************************)
(* Properties                                                              *)
(***************************************************************************)
Ended(c) == c.pc \in {"done", "thrown"}

\* The call has got a response whose body reached processResponseBody.
Decoded(c) == c.res # NoResponse /\ ~c.res.error /\ ~c.res.corrupt

IsSuccessStatus(statusCode) == statusCode >= 200 /\ statusCode <= 299

\* An option counts as set when it has a non-empty value.
IsSet(v) == v # Undefined /\ v # Lit("")

\* C1: every call made through get, post, postJson, put, patch or delete that
\* has ended, whatever the outcome of its request, has called the completion
\* callback exactly once.
C1_CallbackExactlyOnce ==
  \A i \in CallIds :
    (calls[i].op \in Verbs /\ Ended(calls[i])) => calls[i].cbCount = 1

\* C2: no call made through any of the verbs ends with an exception thrown
\* instead of an error handed to the callback.
C2_NothingThrown ==
  \A i \in CallIds :
    calls[i].op \in Verbs => calls[i].pc # "thrown"

CarriesHapikey(r, key) ==
  \E part \in {r.qs, r.form, r.json} :
    /\ part.present
    /\ "hapikey" \in DOMAIN part.params
    /\ part.params["hapikey"] = key

CarriesAnyHapikey(r) ==
  \E part \in {r.qs, r.form, r.json} :
    part.present /\ "hapikey" \in DOMAIN part.params

\* C4: every request sent for a client built with api_key carries hapikey and
\* no Authorization header, every request sent for a client built with
\* access_token alone carries "Bearer <access_token>" and no hapikey, and no
\* request carries both.
C4_ExactlyOneAuthentication ==
  \A i \in CallIds :
    \A k \in 1..Len(calls[i].sent) :
      LET r == calls[i].sent[k]
      IN  /\ IsSet(ctor.options.api_key) =>
               /\ CarriesHapikey(r, ctor.options.api_key)
               /\ r.headers.Authorization = Undefined
          /\ (calls[i].op \in Verbs /\ ~IsSet(ctor.options.api_key)) =>
               /\ r.headers.Authorization =
                    Str(<<Word("Bearer ")>> \o ToText(ctor.options.access_token))
               /\ ~CarriesAnyHapikey(r)
          /\ ~(CarriesAnyHapikey(r) /\ r.headers.Authorization # Undefined)

\* C5: a call whose response has a status in 200..299 and a body that parses
\* as JSON to a value whose status is not "error" ends with the callback
\* called with a null error and that value.
C5_SuccessDeliversParsedValue ==
  \A i \in CallIds :
    LET c == calls[i]
    IN  (/\ c.op \in Verbs
         /\ Ended(c)
         /\ Decoded(c)
         /\ IsSuccessStatus(c.res.statusCode)
         /\ JSONparse(c.res.body).ok
         /\ Get(JSONparse(c.res.body).value, "status") # Lit("error"))
        => /\ c.cbCount = 1
           /\ c.cbErr = Null
           /\ c.cbResult = JSONparse(c.res.body).value

\* C6: a call whose response has a status outside 200..299 ends, whatever the
\* body and whether gzipped or not, with the callback called with an error
\* whose statusCode is that status; for the HTML body of an Internal Server
\* Error with status 500 the message is the text without its tags.
C6_ErrorStatusGivesApiError ==
  \A i \in CallIds :
    LET c == calls[i]
    IN  (/\ c.op \in Verbs
         /\ Ended(c)
         /\ Decoded(c)
         /\ ~IsSuccessStatus(c.res.statusCode))
        => /\ c.cbCount = 1
           /\ c.cbErr.type = "error"
           /\ c.cbErr.statusCode = Num(c.res.statusCode)
           /\ (c.res.statusCode = 500 /\ c.res.body = HtmlText) =>
                c.cbErr.message = Str(<<Space, Word("Internal Server Error"), Space>>)

\* C7: createHubspotError returns an error for every body and every status
\* code it is applied to, and never throws.
C7_NormalizationIsTotal ==
  norm.applied => (~norm.threw /\ norm.error.type = "error")

\* C8: a call whose response has status 204 and an empty body ends with the
\* callback called once with a null error and an empty result.
C8_NoContentSucceeds ==
  \A i \in CallIds :
    LET c == calls[i]
    IN  (/\ Ended(c)
         /\ Decoded(c)
         /\ c.res.statusCode = 204
         /\ c.res.body = EmptyText)
        => /\ c.pc = "done"
           /\ c.cbCount = 1
           /\ c.cbErr = Null
           /\ c.cbResult = EmptyObject

C8_Witness ==
  \E i \in CallIds :
    /\ calls[i].op \in Verbs
    /\ calls[i].pc = "done"
    /\ Decoded(calls[i])
    /\ calls[i].res.statusCode = 204
    /\ calls[i].res.body = EmptyText
    /\ calls[i].cbErr = Null

\* The requests of the call that carry the original operation.
Puts(c) == SelectSeq(c.sent, LAMBDA r : r.method = "PUT")

\* The first put of the timeline call was answered with status 401.
RejectedWith401(c) ==
  /\ Len(c.got) >= 1
  /\ ~c.got[1].error
  /\ ~c.got[1].corrupt
  /\ c.got[1].statusCode = 401

\* The refresh of the call was answered with a new pair of tokens.
RefreshSucceeded(c) ==
  \E k \in 1..Len(c.got) : c.sent[k].method = "POST" /\ Granted(c.got[k])

\* C9: a timeline call of a client holding access_token T1 that was rejected
\* with 401 and started the refresh, the token endpoint granting T2, ends
\* with the operation sent exactly twice, the second time with
\* "Authorization: Bearer T2", with the client's access_token T2, and with
\* the callback called once, without an error when the retry succeeded.
C9_RefreshThenRetryWithNewToken ==
  \A i \in CallIds :
    LET c == calls[i]
    IN  (/\ c.op = "createOrUpdateTimelineEvent"
         /\ Ended(c)
         /\ ctor.options.access_token = Lit("T1")
         /\ ~IsSet(ctor.options.api_key)
         /\ RejectedWith401(c)
         /\ c.refreshes = 1
         /\ c.grant)
        => /\ Len(Puts(c)) = 2
           /\ Puts(c)[2].headers.Authorization = Str(<<Word("Bearer "), Word("T2")>>)
           /\ self.access_token = Lit("T2")
           /\ c.cbCount = 1
           /\ (Decoded(c) /\ c.res.statusCode = 200 /\ c.res.body = EmptyObjectText)
                => (c.cbErr = Null /\ c.cbResult = EmptyObject)

\* C10: a timeline call refreshes at most once and sends its operation at
\* most twice; when its refresh has not succeeded it ends with the callback
\* called once with an error and the operation sent once only; when it has
\* retried it ends with the callback called once.
C10_AtMostOneRefreshAndRetry ==
  \A i \in CallIds :
    LET c == calls[i]
    IN  c.op = "createOrUpdateTimelineEvent" =>
          /\ c.refreshes <= 1
          /\ Len(Puts(c)) <= 2
          /\ (Ended(c) /\ c.refreshes = 1 /\ ~RefreshSucceeded(c)) =>
               (c.cbCount = 1 /\ Truthy(c.cbErr) /\ Len(Puts(c)) = 1)
          /\ (Ended(c) /\ Len(Puts(c)) = 2) => c.cbCount = 1

\* The four parameters of a token refresh.
RefreshParamNames == {"grant_type", "client_id", "client_secret", "refresh_token"}

\* The caller of refresh passed the client's id, secret and refresh token.
PassedRefreshParams(c) ==
  c.params # NoBag /\ {"client_id", "client_secret", "refresh_token"} \subseteq DOMAIN c.params

\* C11: a refresh call that has ended has sent exactly one request, a POST to
\* the refresh endpoint, whose form holds grant_type "refresh_token" whatever
\* the caller passed and, when the caller passed them, client_id,
\* client_secret and refresh_token with the caller's values; the whitelist
\* keeps all four names.
C11_RefreshPostsFourParameters ==
  \A i \in CallIds :
    LET c == calls[i]
    IN  (c.op = "refresh" /\ Ended(c)) =>
          /\ RefreshParamNames \subseteq Range(c.availableParams)
          /\ Len(c.sent) = 1
          /\ c.sent[1].method = "POST"
          /\ c.sent[1].uri = Str(ToText(self.httpUri) \o <<Word("/"), Word("auth/v1/refresh")>>)
          /\ c.sent[1].form.present
          /\ Param(c.sent[1].form.params, "grant_type") = Lit("refresh_token")
          /\ PassedRefreshParams(c) =>
               \A name \in RefreshParamNames \ {"grant_type"} :
                 Param(c.sent[1].form.params, name) = c.params[name]

\* The text of the uri after its first "?", <<>> when it has none.
QueryText(uri) ==
  LET text == ToText(uri)
      marks == {k \in 1..Len(text) : text[k] = Word("?")}
  IN  IF marks = {}
      THEN <<>>
      ELSE SubSeq(text, (CHOOSE k \in marks : \A l \in marks : k <= l) + 1, Len(text))

\* The key=value pairs of a query text, a pair being one token.
TextPairs(text) ==
  {<<text[k].key, text[k].value>> : k \in {l \in 1..Len(text) : text[l].k = "pair"}}

\* The pairs the request library makes of its qs option: an array becomes
\* bracket-indexed keys.
OptionPairs(part) ==
  IF ~part.present
  THEN {}
  ELSE UNION {IF part.params[name].type = "array"
              THEN {<<name \o "[" \o ToString(k - 1) \o "]", part.params[name].items[k]>> :
                      k \in 1..Len(part.params[name].items)}
              ELSE {<<name, part.params[name]>>} : name \in DOMAIN part.params}

\* The pairs of the query string the request goes out with.
QueryPairs(r) == TextPairs(QueryText(r.uri)) \cup OptionPairs(r.qs)

\* The pairs of a parameter bag with the key repeated once per element of an
\* array.
RepeatedPairs(bag) ==
  UNION {IF bag[name].type = "array"
         THEN {<<name, bag[name].items[k]>> : k \in 1..Len(bag[name].items)}
         ELSE {<<name, bag[name]>>} : name \in DOMAIN bag}

\* C12: every GET or DELETE request sent carries in its query string exactly
\* the parameters that passed the whitelist, and hapikey for a client with an
\* api_key, an array as the key repeated once per element.
C12_QueryCarriesWhitelistedParams ==
  \A i \in CallIds :
    \A k \in 1..Len(calls[i].sent) :
      calls[i].sent[k].method \in {"GET", "DELETE"} =>
        QueryPairs(calls[i].sent[k]) =
          RepeatedPairs(FinalParams(self, calls[i].availableParams, calls[i].givenParams))

\* C13: a post, postJson, put or patch call has sent a request whose body is
\* selected by the verb: the parameters that passed the whitelist are its
\* form for post and patch, and its JSON body for postJson and put.
C13_VerbSelectsBodyEncoding ==
  \A i \in CallIds :
    LET c == calls[i]
    IN  c.op \in {"post", "postJson", "put", "patch"} =>
          /\ Len(c.sent) >= 1
          /\ \A k \in 1..Len(c.sent) :
               \E body \in Once(Params(FinalParams(self, c.availableParams, c.givenParams))) :
                 /\ c.op \in {"post", "patch"} =>
                      (c.sent[k].form = body /\ ~c.sent[k].json.present)
                 /\ c.op \in {"postJson", "put"} =>
                      (c.sent[k].json = body /\ ~c.sent[k].form.present)

\* The object an error body stands for: the body itself, or what its JSON
\* text parses to; Undefined for any other body.
SourceObject(errorBody) ==
  CASE errorBody.type = "object" -> errorBody
    [] errorBody.type \in {"string", "buffer"} ->
         CHOOSE b \in {IF p.ok /\ p.value.type = "object" THEN p.value ELSE Undefined :
                         p \in Once(JSONparse(ToText(errorBody)))} : TRUE
    [] OTHER -> Undefined

Has(b, name) == name \in DOMAIN b.fields

\* C14 as stated: the error made of an error body given as an object or as
\* its JSON text has the body's requestId whenever the body has one; it has
\* the body's error_description as message and the body's error as status
\* when the body has an error_description, and otherwise the body's message
\* and status whenever the body has them.
C14_NormalizationRecoversFields ==
  norm.applied =>
    \E b \in Once(SourceObject(norm.errorBody)) :
      b # Undefined =>
        /\ ~norm.threw
        /\ Has(b, "requestId") => norm.error.requestId = Get(b, "requestId")
        /\ IF Has(b, "error_description")
           THEN /\ norm.error.message = Get(b, "error_description")
                /\ norm.error.status = Get(b, "error")
           ELSE /\ Has(b, "message") => norm.error.message = Get(b, "message")
                /\ Has(b, "status") => norm.error.status = Get(b, "status")

\* A field that is present with a value other than the empty string.
Filled(b, name) == Has(b, name) /\ Truthy(Get(b, name))

\* C14, amended: the same for the fields requestId, error_description and
\* message that are not empty; a field that is empty counts as absent (the
\* error then has no requestId, and its message is the body).  The status is
\* the body's whenever the body has one, empty or not.
C14_NormalizationRecoversFilledFields ==
  norm.applied =>
    \E b \in Once(SourceObject(norm.errorBody)) :
      b # Undefined =>
        /\ ~norm.threw
        /\ Filled(b, "requestId") => norm.error.requestId = Get(b, "requestId")
        /\ IF Filled(b, "error_description")
           THEN /\ norm.error.message = Get(b, "error_description")
                /\ norm.error.status = Get(b, "error")
           ELSE /\ Filled(b, "message") => norm.error.message = Get(b, "message")
                /\ Has(b, "status") => norm.error.status = Get(b, "status")

C14_Witness ==
  /\ norm.applied
  /\ norm.errorBody = Str(InBandErrorText)
  /\ norm.code = Num(500)
  /\ norm.error.message = Lit("contact does not exist")
  /\ norm.error.status = Lit("error")
  /\ norm.error.requestId = Lit("r1")

\* The response of the call has a status in 200..299 and a body that parses
\* to an object whose status is "error".
InBandError(c) ==
  /\ Decoded(c)
  /\ IsSuccessStatus(c.res.statusCode)
  /\ \E p \in Once(JSONparse(c.res.body)) :
       p.ok /\ CanRead(p.value) /\ Get(p.value, "status") = Lit("error")

\* C15: a call that has ended on a response with a status in 200..299 whose
\* body parses to an object with status "error" has called the callback once,
\* with no result and with an error that has the body's message and
\* requestId, the status "error", and the HTTP status as code and statusCode.
C15_InBandErrorFailsTheCall ==
  \A i \in CallIds :
    LET c == calls[i]
    IN  (Ended(c) /\ InBandError(c)) =>
          \E b \in Once(JSONparse(c.res.body).value) :
            /\ c.pc = "done"
            /\ c.cbCount = 1
            /\ c.cbResult = Undefined
            /\ c.cbErr.type = "error"
            /\ c.cbErr.status = Lit("error")
            /\ c.cbErr.statusCode = Num(c.res.statusCode)
            /\ c.cbErr.code = Num(c.res.statusCode)
            /\ Filled(b, "message") => c.cbErr.message = Get(b, "message")
            /\ Filled(b, "requestId") => c.cbErr.requestId = Get(b, "requestId")

C15_Witness ==
  \E i \in CallIds :
    /\ calls[i].op = "get"
    /\ calls[i].pc = "done"
    /\ InBandError(calls[i])
    /\ calls[i].res.statusCode = 200
    /\ calls[i].res.body = InBandErrorText
    /\ calls[i].cbErr.type = "error"
    /\ calls[i].cbErr.message = Lit("contact does not exist")

\* The first stage of the response handling that fails for a response, in
\* the order transport, decompression, status, parse, in-band status.
Stage(res) ==
  CASE res.error -> "connection"
    [] ~res.error /\ res.gzip /\ res.corrupt -> "decompression"
    [] ~res.error /\ ~res.corrupt /\ ~IsSuccessStatus(res.statusCode) -> "api"
    [] OTHER ->
         CHOOSE stage \in {IF ~p.ok
                           THEN IF res.statusCode # 204 THEN "parse" ELSE "success"
                           ELSE IF Get(p.value, "status") = Lit("error")
                                THEN "in-band" ELSE "success" :
                             p \in Once(JSONparse(res.body))} : TRUE

\* The call has reported the stage, and nothing else: the callback was
\* called once, with the error of the stage or with the parsed body.
Reported(c, stage) ==
  /\ c.pc = "done"
  /\ c.cbCount = 1
  /\ CASE stage = "connection" ->
            /\ c.cbErr.type = "error"
            /\ c.cbErr.message =
                 Lit("Unable to connect to the hubspot API endpoint. Check prevError.")
            /\ c.cbErr.prevError = Lit("ECONNREFUSED")
       [] stage = "decompression" ->
            /\ c.cbErr.type = "error"
            /\ c.cbErr.message =
                 Lit("Unable decompress Hubspot API response's body. Check prevError.")
            /\ c.cbErr.prevError = Lit("incorrect header check")
       [] stage \in {"api", "in-band"} ->
            /\ c.cbErr.type = "error"
            /\ c.cbErr.statusCode = Num(c.res.statusCode)
            /\ c.cbErr # [ParseError EXCEPT !.code = Num(c.res.statusCode),
                                            !.statusCode = Num(c.res.statusCode)]
       [] stage = "parse" ->
            c.cbErr = ParseError
       [] OTHER ->
            /\ c.cbErr = Null
            /\ c.cbResult = IF JSONparse(c.res.body).ok
                            THEN JSONparse(c.res.body).value ELSE EmptyObject

\* C16: a call through a verb or a catalog method that has ended on a
\* response has reported the first failing stage of that response, or
\* success when no stage fails.
C16_FirstFailingStageReported ==
  \A i \in CallIds :
    LET c == calls[i]
    IN  (c.op \in Verbs \cup Methods /\ Ended(c) /\ c.res # NoResponse) =>
          Reported(c, Stage(c.res))

\* The parameters a request carries, in its qs, form or json.
SentBag(r) ==
  CASE r.qs.present -> r.qs.params
    [] r.form.present -> r.form.params
    [] r.json.present -> r.json.params
    [] OTHER -> EmptyBag

\* The caller's parameters that are named in the whitelist of the call and
\* are not undefined, with hapikey for a client built with an api_key.
Whitelisted(c) ==
  LET kept == {name \in Range(c.availableParams) :
                 name \in DOMAIN c.params /\ c.params[name] # Undefined}
      names == IF IsSet(ctor.options.api_key) THEN kept \cup {"hapikey"} ELSE kept
  IN  [name \in names |->
         IF name \in kept THEN c.params[name] ELSE ctor.options.api_key]

\* The catalog methods that hand the caller's parameters to the filtering
\* as they are (refresh sets grant_type first).
FilteringMethods == Methods \ {"refresh"}

\* C17: for a call of a catalog method with a whitelist, the parameters
\* execute builds and every request of the call carries are exactly the
\* caller's whitelisted parameters that are not undefined, with the caller's
\* values, and hapikey for an api_key client; the caller's object is as it
\* was passed.
C17_ExactlyWhitelistedParamsSent ==
  \A i \in CallIds :
    LET c == calls[i]
    IN  c.op \in FilteringMethods =>
          \E expected \in Once(Whitelisted(c)) :
            /\ c.paramsAfter = c.params
            /\ FinalParams(self, c.availableParams, c.givenParams) = expected
            /\ \A k \in 1..Len(c.sent) :
                 /\ SentBag(c.sent[k]) = expected
                 /\ QueryText(c.sent[k].uri) = <<>>

\* The request or the response of the call is one the code throws on: a
\* POST; with DEBUG, a transport error; a status outside 200..299 with a body
\* that is not gzipped and not JSON; a body null; for the timeline call, a
\* 401, which starts the refresh.
ThrowsFor(c) ==
  \/ c.op \in {"post", "postJson", "refresh", "contacts_lists_add"}
  \/ /\ c.res # NoResponse
     /\ \/ c.res.error /\ Truthy(self.DEBUG)
        \/ /\ Decoded(c)
           /\ \E p \in Once(JSONparse(c.res.body)) :
                \/ ~IsSuccessStatus(c.res.statusCode) /\ ~c.res.gzip /\ ~p.ok
                \/ IsSuccessStatus(c.res.statusCode) /\ p.ok /\ ~CanRead(p.value)
                \/ c.op = "createOrUpdateTimelineEvent" /\ c.res.statusCode = 401

\* The fields of the client that no call may change.
FixedFields == {"api_key", "httpUri", "contentType", "userAgent", "DEBUG"}

\* C18: with several calls in flight on one client, a call that has ended
\* has reported what its own response gives (the first failing stage of that
\* response, or the exception the code throws on it), through its own
\* callback, once; and api_key, httpUri, contentType, userAgent and DEBUG of
\* the client are as the constructor set them.
C18_CallsAreIndependent ==
  /\ ctor.state = "built" =>
       \E built \in Once(hubspotAPI(ctor.options).this) :
         \A name \in FixedFields : self[name] = built[name]
  /\ \A i \in CallIds :
       LET c == calls[i]
       IN  Ended(c) =>
             IF ThrowsFor(c)
             THEN c.pc = "thrown" /\ c.cbCount = 0
             ELSE Reported(c, Stage(c.res))

C18_Witness ==
  /\ calls[1].pc = "done"
  /\ calls[2].pc = "done"
  /\ calls[2].overlap
  /\ calls[1].res.gzip
  /\ calls[2].res.gzip
  /\ calls[1].res.body = ContactText
  /\ calls[1].res.statusCode = 200
  /\ calls[2].res.statusCode = 500
  /\ calls[1].cbErr = Null
  /\ calls[1].cbResult = JSONparse(ContactText).value
  /\ calls[2].cbErr.type = "error"
  /\ calls[2].cbErr.statusCode = Num(500)

====
